---------------------------- MODULE Spec2Model ----------------------------
(***************************************************************************)
(* Model of the file IO driver of nockapp                                  *)
(* (crates/nockapp/src/drivers/file.rs).                                   *)
(*                                                                         *)
(* The driver is one loop: fetch an effect, filter and decode it, run the  *)
(* filesystem operation, emit one poke.  One action of the model is one    *)
(* whole iteration of that loop, from next_effect to the `continue`, the   *)
(* end of the loop body or the `?` that leaves the loop.                   *)
(*                                                                         *)
(* Nouns are modelled as tuples: an atom is <<"a", bytes>> where bytes is  *)
(* the little-endian byte string of the atom's value without trailing zero *)
(* bytes (an atom is a natural number), a cell is <<"c", head, tail>>.     *)
(***************************************************************************)
EXTENDS Integers, Sequences, FiniteSets, TLC

(* Number of loop iterations recorded in the history. *)
MaxIter == 3

None == <<>>
Some(x) == <<x>>

---------------------------------------------------------------------------
(* Nouns *)

Atom(bytes) == <<"a", bytes>>
Cell(h, t) == <<"c", h, t>>

as_cell(n) == IF n[1] = "c" THEN Some(n) ELSE None
as_atom(n) == IF n[1] = "a" THEN Some(n) ELSE None
head(c) == c[2]
tail(c) == c[3]

(* An atom is direct when its value fits in 63 bits. *)
as_direct(n) ==
    IF /\ n[1] = "a"
       /\ \/ Len(n[2]) < 8
          \/ Len(n[2]) = 8 /\ n[2][8] < 128
    THEN Some(n) ELSE None

(* tas!(b"..."): the value whose little-endian bytes are the given text;   *)
(* D(v): the direct atom of value v.  Values are written as their byte     *)
(* strings, so the value 0 is the empty string.                            *)
tas(text) == text
D(v) == Atom(v)
data(a) == a[2]
raw_equals(a, b) == a = b

zero == <<>>
YES == D(zero)
NO == D(<<1>>)

b_file == <<102, 105, 108, 101>>
b_read == <<114, 101, 97, 100>>
b_write == <<119, 114, 105, 116, 101>>

(* T(slab, &[n1, .., nk]): the right-nested tuple [n1 n2 .. nk]. *)
RECURSIVE T(_)
T(ns) == IF Len(ns) = 1 THEN ns[1] ELSE Cell(ns[1], T(Tail(ns)))

(* The bytes of an atom. *)
as_ne_bytes(a) == a[2]

(* IndirectAtom::new_raw_bytes_ref(..).normalize_as_atom(): the atom whose *)
(* value is the little-endian number written by the bytes; high-order      *)
(* (trailing) zero bytes do not contribute to the value.                   *)
RECURSIVE StripZeros(_)
StripZeros(bytes) ==
    IF bytes = <<>> THEN <<>>
    ELSE IF bytes[Len(bytes)] = 0 THEN StripZeros(SubSeq(bytes, 1, Len(bytes) - 1))
    ELSE bytes

normalize_as_atom(bytes) == Atom(StripZeros(bytes))

(* A lossy conversion, which accepts every byte string. *)
from_utf8_Lossy(bytes) == Some(bytes)

(* String::from_utf8 / Atom::into_string succeed on valid UTF-8.  Every    *)
(* byte below 128 is valid on its own; the byte 255 occurs in no valid     *)
(* UTF-8 text.  The model uses no other byte above 127.                    *)
from_utf8(bytes) ==
    IF \A i \in 1..Len(bytes) : bytes[i] < 128 THEN Some(bytes) ELSE None

into_string(a) == from_utf8(as_ne_bytes(a))

---------------------------------------------------------------------------
(* FileWire *)

VERSION == 1
SOURCE == "file"

(* to_wire with the tags of the two variants exchanged. *)
to_wire_Swapped(self) ==
    LET tags == IF self = "Read" THEN <<"write">> ELSE <<"read">>
    IN [source |-> SOURCE, version |-> VERSION, tags |-> tags]

to_wire(self) ==
    LET tags == IF self = "Read" THEN <<"read">> ELSE <<"write">>
    IN [source |-> SOURCE, version |-> VERSION, tags |-> tags]

---------------------------------------------------------------------------
(* The filesystem.  A node is <<absolute, components>>; the working        *)
(* directory is <<FALSE, <<>>>> and the root is <<TRUE, <<>>>>.            *)
(* fs.dirs is the set of directories, fs.files maps the regular files to   *)
(* their bytes, fs.ro is the set of directories in which no entry can be   *)
(* created (permission denied).                                            *)

RECURSIVE Split(_, _)
Split(bytes, cur) ==
    IF bytes = <<>> THEN (IF cur = <<>> THEN <<>> ELSE <<cur>>)
    ELSE IF bytes[1] = 47
         THEN (IF cur = <<>> THEN <<>> ELSE <<cur>>) \o Split(Tail(bytes), <<>>)
         ELSE Split(Tail(bytes), Append(cur, bytes[1]))

Components(path) == Split(path, <<>>)
has_root(path) == Len(path) > 0 /\ path[1] = 47
Node(path) == <<has_root(path), Components(path)>>

HasNul(path) == \E i \in 1..Len(path) : path[i] = 0
TrailingSlash(path) == Len(path) > 0 /\ path[Len(path)] = 47 /\ Components(path) # <<>>

(* Path::parent: the path without its final component, None when the path  *)
(* is empty or ends in the root.                                           *)
parent(path) ==
    LET n == Node(path)
    IN IF n[2] = <<>> THEN None
       ELSE Some(<<n[1], SubSeq(n[2], 1, Len(n[2]) - 1)>>)

Prefix(n, k) == <<n[1], SubSeq(n[2], 1, k)>>
NodeHasNul(n) == \E i \in 1..Len(n[2]) : \E j \in 1..Len(n[2][i]) : n[2][i][j] = 0

IsDir(f, n) == n \in f.dirs
IsFile(f, n) == n \in DOMAIN f.files

(* A read that opens the file with create(true): a missing file in an     *)
(* existing, writable directory is created empty.                          *)
fs_read_Creates(f, path) ==
    LET n == Node(path)
        dir == Prefix(n, Len(n[2]) - 1)
    IN IF ~HasNul(path) /\ ~TrailingSlash(path) /\ IsFile(f, n)
       THEN [ok |-> TRUE, contents |-> f.files[n], fs |-> f]
       ELSE IF /\ ~HasNul(path) /\ ~TrailingSlash(path) /\ n[2] # <<>>
               /\ ~IsDir(f, n) /\ IsDir(f, dir) /\ dir \notin f.ro
       THEN [ok |-> TRUE, contents |-> <<>>,
             fs |-> [f EXCEPT !.files =
                        [x \in DOMAIN f.files \cup {n} |->
                            IF x = n THEN <<>> ELSE f.files[x]]]]
       ELSE [ok |-> FALSE, contents |-> <<>>, fs |-> f]

(* tokio::fs::read: the whole file, or an error; the filesystem is left    *)
(* as it was.                                                              *)
fs_read(f, path) ==
    IF ~HasNul(path) /\ ~TrailingSlash(path) /\ IsFile(f, Node(path))
    THEN [ok |-> TRUE, contents |-> f.files[Node(path)], fs |-> f]
    ELSE [ok |-> FALSE, contents |-> <<>>, fs |-> f]

(* tokio::fs::create_dir_all: creates the directory and all its missing    *)
(* ancestors; fails when an ancestor (or the path) is a regular file or    *)
(* when the deepest existing ancestor does not allow creating entries.     *)
create_dir_all(f, n) ==
    LET len == Len(n[2])
        there == {k \in 0..len : IsDir(f, Prefix(n, k)) \/ IsFile(f, Prefix(n, k))}
        m == CHOOSE k \in there : \A j \in there : j <= k
    IN IF NodeHasNul(n) THEN [ok |-> FALSE, fs |-> f]
       ELSE IF IsDir(f, n) THEN [ok |-> TRUE, fs |-> f]
       ELSE IF IsFile(f, Prefix(n, m)) THEN [ok |-> FALSE, fs |-> f]
       ELSE IF Prefix(n, m) \in f.ro THEN [ok |-> FALSE, fs |-> f]
       ELSE [ok |-> TRUE,
             fs |-> [f EXCEPT !.dirs = @ \cup {Prefix(n, k) : k \in (m + 1)..len}]]

(* A write that opens the file for appending instead of truncating it. *)
fs_write_Append(f, path, bytes) ==
    LET n == Node(path)
        dir == Prefix(n, Len(n[2]) - 1)
    IN IF \/ HasNul(path) \/ TrailingSlash(path) \/ n[2] = <<>>
          \/ IsDir(f, n) \/ ~IsDir(f, dir)
          \/ (~IsFile(f, n) /\ dir \in f.ro)
       THEN [ok |-> FALSE, fs |-> f]
       ELSE [ok |-> TRUE,
             fs |-> [f EXCEPT !.files =
                        [x \in DOMAIN f.files \cup {n} |->
                            IF x # n THEN f.files[x]
                            ELSE IF IsFile(f, n) THEN f.files[n] \o bytes
                            ELSE bytes]]]

(* tokio::fs::write: creates or truncates the file and writes the bytes.   *)
fs_write(f, path, bytes) ==
    LET n == Node(path)
        dir == Prefix(n, Len(n[2]) - 1)
    IN IF \/ HasNul(path) \/ TrailingSlash(path) \/ n[2] = <<>>
          \/ IsDir(f, n) \/ ~IsDir(f, dir)
          \/ (~IsFile(f, n) /\ dir \in f.ro)
       THEN [ok |-> FALSE, fs |-> f]
       ELSE [ok |-> TRUE,
             fs |-> [f EXCEPT !.files =
                        [x \in DOMAIN f.files \cup {n} |->
                            IF x = n THEN bytes ELSE f.files[x]]]]

---------------------------------------------------------------------------
(* The inputs: paths, contents, initial filesystems and effects. *)

cwd == <<FALSE, <<>>>>
root == <<TRUE, <<>>>>

pF == <<102>>
pDF == <<100, 47, 102>>
pDFs == <<100, 47, 102, 47>>
pBad == <<255>>
pEmpty == <<>>

Paths == {pF, pDF, pBad}
Contents == {<<1>>, <<2, 3>>}

nF == Node(pF)
nD == <<FALSE, <<<<100>>>>>>
nDF == Node(pDF)

EmptyFiles == [x \in {} |-> <<>>]

InitialFS == {
    [dirs |-> {cwd, root}, files |-> EmptyFiles, ro |-> {}],
    [dirs |-> {cwd, root, nD},
     files |-> [x \in {nF, nDF} |-> IF x = nF THEN <<1, 0>> ELSE <<3>>],
     ro |-> {}],
    [dirs |-> {cwd, root}, files |-> [x \in {nF} |-> <<3>>], ro |-> {cwd}] }

ReadEffect(p) == T(<<D(tas(b_file)), D(tas(b_read)), Atom(p)>>)
WriteEffect(p, c) == T(<<D(tas(b_file)), D(tas(b_write)), Atom(p), Atom(c)>>)

aX == Atom(<<120>>)
aBig == Atom(<<1, 1, 1, 1, 1, 1, 1, 1, 1>>)

ReadEffects == {ReadEffect(p) : p \in Paths}
WriteEffects ==
    {WriteEffect(pF, c) : c \in Contents} \cup
    {WriteEffect(p, <<1>>) : p \in {pDF, pDFs, pBad, pEmpty}}

MalformedEffects == {
    D(tas(b_file)),
    T(<<aX, D(tas(b_read)), Atom(pF)>>),
    T(<<D(tas(b_file)), Atom(pF)>>),
    T(<<D(tas(b_file)), aBig, Atom(pF)>>),
    T(<<D(tas(b_file)), D(tas(b_read)), Cell(Atom(pF), aX)>>),
    T(<<D(tas(b_file)), D(tas(b_write)), Atom(pF)>>),
    T(<<D(tas(b_file)), D(tas(b_write)), Cell(Atom(pF), aX), Atom(<<1>>)>>),
    T(<<D(tas(b_file)), D(tas(b_write)), Atom(pBad), Cell(aX, aX)>>) }

Effects == ReadEffects \cup WriteEffects \cup MalformedEffects

---------------------------------------------------------------------------
(* The loop *)

VARIABLES pc, fs, pokes, log, closed, spins

vars == <<pc, fs, pokes, log, closed, spins>>

(* Decode without the check of the "file" head (line 57). *)
Decode_NoFileCheck(root_noun) ==
    LET Continue == [k |-> "continue", operation |-> "", path_atom |-> None,
                     file_cell |-> None]
    IN IF as_cell(root_noun) = None THEN Continue
       ELSE LET effect_cell == as_cell(root_noun)[1] IN
       IF as_cell(tail(effect_cell)) = None THEN Continue
       ELSE LET file_cell == as_cell(tail(effect_cell))[1]
                tag == as_direct(head(file_cell)) IN
       IF tag # None /\ data(tag[1]) = tas(b_read)
       THEN [k |-> "op", operation |-> "read",
             path_atom |-> as_atom(tail(file_cell)), file_cell |-> Some(file_cell)]
       ELSE IF tag # None /\ data(tag[1]) = tas(b_write)
       THEN IF as_cell(tail(file_cell)) = None THEN Continue
            ELSE LET write_cell == as_cell(tail(file_cell))[1] IN
                 [k |-> "op", operation |-> "write",
                  path_atom |-> as_atom(head(write_cell)),
                  file_cell |-> Some(file_cell)]
       ELSE Continue

(* Lines 53-74: filter and decode.  The result is "continue" or the pair   *)
(* (operation, path_atom) together with file_cell.                         *)
Decode(root_noun) ==
    LET Continue == [k |-> "continue", operation |-> "", path_atom |-> None,
                     file_cell |-> None]
    IN IF as_cell(root_noun) = None THEN Continue
       ELSE LET effect_cell == as_cell(root_noun)[1] IN
       IF ~raw_equals(head(effect_cell), D(tas(b_file))) THEN Continue
       ELSE IF as_cell(tail(effect_cell)) = None THEN Continue
       ELSE LET file_cell == as_cell(tail(effect_cell))[1]
                tag == as_direct(head(file_cell)) IN
       IF tag # None /\ data(tag[1]) = tas(b_read)
       THEN [k |-> "op", operation |-> "read",
             path_atom |-> as_atom(tail(file_cell)), file_cell |-> Some(file_cell)]
       ELSE IF tag # None /\ data(tag[1]) = tas(b_write)
       THEN IF as_cell(tail(file_cell)) = None THEN Continue
            ELSE LET write_cell == as_cell(tail(file_cell))[1] IN
                 [k |-> "op", operation |-> "write",
                  path_atom |-> as_atom(head(write_cell)),
                  file_cell |-> Some(file_cell)]
       ELSE Continue

(* The read-success tuple without the ~ before the contents. *)
ReadOkNoun_NoSig(contents_noun) ==
    T(<<D(tas(b_file)), D(tas(b_read)), contents_noun>>)

(* The read-error tuple with a contents element. *)
ReadErrNoun_WithContents == T(<<D(tas(b_file)), D(tas(b_read)), D(zero), D(zero)>>)

(* The write tuple with path and contents exchanged. *)
WriteNoun_Swapped(path_atom, contents_atom, flag) ==
    T(<<D(tas(b_file)), D(tas(b_write)), contents_atom, path_atom, flag>>)

(* The poke nouns built by the five emitting branches. *)
ReadOkNoun(contents_noun) ==
    T(<<D(tas(b_file)), D(tas(b_read)), D(zero), contents_noun>>)

ReadErrNoun == T(<<D(tas(b_file)), D(tas(b_read)), D(zero)>>)

WriteNoun(path_atom, contents_atom, flag) ==
    T(<<D(tas(b_file)), D(tas(b_write)), path_atom, contents_atom, flag>>)

(* A poke whose wire counts the pokes delivered so far. *)
Poke_Sequenced(wire, noun) ==
    [wire |-> [wire EXCEPT !.version = VERSION + Len(pokes)], noun |-> noun]

Poke(wire, noun) == [wire |-> wire, noun |-> noun]

Entry(kind, eff, ops, poke, sent) ==
    [kind |-> kind, eff |-> eff, ops |-> ops, poke |-> poke, sent |-> sent,
     pre |-> fs]

Init ==
    /\ pc = "loop"
    /\ fs \in InitialFS
    /\ pokes = <<>>
    /\ log = <<>>
    /\ closed = FALSE
    /\ spins = 0

(* The host closes the upstream effect source: every later next_effect     *)
(* fails.                                                                  *)
CloseSource ==
    /\ pc = "loop"
    /\ ~closed
    /\ closed' = TRUE
    /\ UNCHANGED <<pc, fs, pokes, log, spins>>

(* A fetch failure that returns from the loop instead of continuing. *)
FetchErr_Returns ==
    /\ pc = "loop"
    /\ Len(log) < MaxIter \/ closed
    /\ IF Len(log) < MaxIter
       THEN /\ log' = Append(log, [kind |-> "fetch_err", eff |-> None, ops |-> <<>>,
                                   poke |-> None, sent |-> FALSE, pre |-> fs])
            /\ spins' = spins
       ELSE /\ log' = log
            /\ spins' = 1 - spins
    /\ pc' = "err"
    /\ UNCHANGED <<fs, pokes, closed>>

(* Lines 44-51: next_effect fails, the error is logged, continue. *)
FetchErr ==
    /\ pc = "loop"
    /\ Len(log) < MaxIter \/ closed
    /\ IF Len(log) < MaxIter
       THEN /\ log' = Append(log, Entry("fetch_err", None, <<>>, None, FALSE))
            /\ spins' = spins
       ELSE /\ log' = log
            /\ spins' = 1 - spins
    /\ UNCHANGED <<pc, fs, pokes, closed>>

(* An emission that delivers the poke twice. *)
Emit_Twice(kind, eff, ops, poke, poke_ok, post) ==
    /\ log' = Append(log, [kind |-> kind, eff |-> Some(eff), ops |-> ops,
                           poke |-> Some(poke), sent |-> poke_ok, pre |-> fs])
    /\ pokes' = IF poke_ok THEN Append(Append(pokes, poke), poke) ELSE pokes
    /\ pc' = IF poke_ok THEN "loop" ELSE "err"
    /\ fs' = post

(* An emission whose error is dropped instead of propagated. *)
Emit_Swallow(kind, eff, ops, poke, poke_ok, post) ==
    /\ log' = Append(log, [kind |-> kind, eff |-> Some(eff), ops |-> ops,
                           poke |-> Some(poke), sent |-> poke_ok, pre |-> fs])
    /\ pokes' = IF poke_ok THEN Append(pokes, poke) ELSE pokes
    /\ pc' = "loop"
    /\ fs' = post

(* An emission that puts the poke in front of the earlier ones. *)
Emit_Prepend(kind, eff, ops, poke, poke_ok, post) ==
    /\ log' = Append(log, [kind |-> kind, eff |-> Some(eff), ops |-> ops,
                           poke |-> Some(poke), sent |-> poke_ok, pre |-> fs])
    /\ pokes' = IF poke_ok THEN <<poke>> \o pokes ELSE pokes
    /\ pc' = IF poke_ok THEN "loop" ELSE "err"
    /\ fs' = post

(* An emission whose failure undoes the filesystem operation. *)
Emit_Rollback(kind, eff, ops, poke, poke_ok, post) ==
    /\ log' = Append(log, [kind |-> kind, eff |-> Some(eff), ops |-> ops,
                           poke |-> Some(poke), sent |-> poke_ok, pre |-> fs])
    /\ pokes' = IF poke_ok THEN Append(pokes, poke) ELSE pokes
    /\ pc' = IF poke_ok THEN "loop" ELSE "err"
    /\ fs' = IF poke_ok THEN post ELSE fs

(* handle.poke(wire, slab).await? : the poke is delivered, or the error    *)
(* leaves the loop.                                                        *)
Emit(kind, eff, ops, poke, poke_ok, post) ==
    /\ log' = Append(log, Entry(kind, Some(eff), ops, Some(poke), poke_ok))
    /\ pokes' = IF poke_ok THEN Append(pokes, poke) ELSE pokes
    /\ pc' = IF poke_ok THEN "loop" ELSE "err"
    /\ fs' = post

(* The write arm with the path decoded before the contents are checked. *)
WriteOutcome_DecodeFirst(d) ==
    IF as_cell(tail(d.file_cell[1])) = None THEN "continue"
    ELSE IF into_string(d.path_atom[1]) = None THEN "fatal"
    ELSE IF as_atom(tail(as_cell(tail(d.file_cell[1]))[1])) = None THEN "continue"
    ELSE "write"

(* Lines 106-112: the checks of the write arm in their order: the tail is  *)
(* a cell, the contents are an atom, then the path is decoded.             *)
WriteOutcome(d) ==
    IF as_cell(tail(d.file_cell[1])) = None THEN "continue"
    ELSE IF as_atom(tail(as_cell(tail(d.file_cell[1]))[1])) = None THEN "continue"
    ELSE IF into_string(d.path_atom[1]) = None THEN "fatal"
    ELSE "write"

(* Every `continue` of lines 53-74, 105-111 and 174. *)
Skip(eff) ==
    /\ pc = "loop" /\ ~closed /\ Len(log) < MaxIter
    /\ LET d == Decode(eff) IN
       \/ d.k = "continue"
       \/ d.k = "op" /\ d.path_atom = None
       \/ /\ d.k = "op" /\ d.operation = "write" /\ d.path_atom # None
          /\ WriteOutcome(d) = "continue"
    /\ log' = Append(log, Entry("skip", Some(eff), <<>>, None, FALSE))
    /\ UNCHANGED <<pc, fs, pokes, closed, spins>>

(* Lines 77-104: the read arm. *)
ReadArm(eff, poke_ok) ==
    /\ pc = "loop" /\ ~closed /\ Len(log) < MaxIter
    /\ LET d == Decode(eff) IN
       /\ d.k = "op" /\ d.operation = "read" /\ d.path_atom # None
       /\ LET path_atom == d.path_atom[1]
              path == from_utf8(as_ne_bytes(path_atom))
          IN IF path = None
             THEN /\ log' = Append(log, Entry("fatal", Some(eff), <<>>, None, FALSE))
                  /\ pc' = "err"
                  /\ UNCHANGED <<fs, pokes>>
             ELSE LET r == fs_read(fs, path[1])
                      wire == to_wire("Read")
                  IN IF r.ok
                     THEN Emit("read", eff, <<<<"read", TRUE>>>>,
                               Poke(wire, ReadOkNoun(normalize_as_atom(r.contents))),
                               poke_ok, r.fs)
                     ELSE Emit("read", eff, <<<<"read", FALSE>>>>,
                               Poke(wire, ReadErrNoun), poke_ok, r.fs)
    /\ UNCHANGED <<closed, spins>>

(* A write arm that does not create the parent directories. *)
EnsureParent_Skip(f, path) == [tried |-> FALSE, ok |-> TRUE, fs |-> f]

(* A write arm that ignores the error of create_dir_all. *)
EnsureParent_IgnoreErr(f, path) ==
    LET par == parent(path)
    IN IF par # None
       THEN LET mk == create_dir_all(f, par[1])
            IN [tried |-> TRUE, ok |-> TRUE, fs |-> mk.fs]
       ELSE [tried |-> FALSE, ok |-> TRUE, fs |-> f]

(* Lines 116-118: create the parent directories when the path has a       *)
(* parent.  `tried` tells whether create_dir_all was called.               *)
EnsureParent(f, path) ==
    LET par == parent(path)
    IN IF par # None
       THEN LET mk == create_dir_all(f, par[1])
            IN [tried |-> TRUE, ok |-> mk.ok, fs |-> mk.fs]
       ELSE [tried |-> FALSE, ok |-> TRUE, fs |-> f]

(* Lines 105-173: the write arm. *)
WriteArm(eff, poke_ok) ==
    /\ pc = "loop" /\ ~closed /\ Len(log) < MaxIter
    /\ LET d == Decode(eff) IN
       /\ d.k = "op" /\ d.operation = "write" /\ d.path_atom # None
       /\ WriteOutcome(d) # "continue"
       /\ LET path_atom == d.path_atom[1]
              write_cell == as_cell(tail(d.file_cell[1]))[1]
              contents_atom == as_atom(tail(write_cell))[1]
              path == into_string(path_atom)
              contents == as_ne_bytes(contents_atom)
              wire == to_wire("Write")
          IN    IF WriteOutcome(d) = "fatal"
                   THEN /\ log' = Append(log, Entry("fatal", Some(eff), <<>>, None, FALSE))
                        /\ pc' = "err"
                        /\ UNCHANGED <<fs, pokes>>
                   ELSE LET mk == EnsureParent(fs, path[1])
                            mkops == IF mk.tried THEN <<<<"create_dir_all", mk.ok>>>>
                                     ELSE <<>>
                        IN IF ~mk.ok
                           THEN Emit("write", eff, mkops,
                                     Poke(wire, WriteNoun(path_atom, contents_atom, NO)),
                                     poke_ok, mk.fs)
                           ELSE LET w == fs_write(mk.fs, path[1], contents)
                                IN IF w.ok
                                   THEN Emit("write", eff, Append(mkops, <<"write", TRUE>>),
                                             Poke(wire, WriteNoun(path_atom, contents_atom, YES)),
                                             poke_ok, w.fs)
                                   ELSE Emit("write", eff, Append(mkops, <<"write", FALSE>>),
                                             Poke(wire, WriteNoun(path_atom, contents_atom, NO)),
                                             poke_ok, w.fs)
    /\ UNCHANGED <<closed, spins>>

Next ==
    \/ FetchErr
    \/ \E eff \in Effects : Skip(eff)
    \/ \E eff \in Effects, poke_ok \in BOOLEAN : ReadArm(eff, poke_ok)
    \/ \E eff \in Effects, poke_ok \in BOOLEAN : WriteArm(eff, poke_ok)

Spec == Init /\ [][Next]_vars

(* The driver together with a host that may close the effect source.  The *)
(* driver's task is scheduled as long as it can take a step.               *)
NextOrClose == Next \/ CloseSource

FairSpec == Init /\ [][NextOrClose]_vars /\ WF_vars(NextOrClose)

TypeOK ==
    /\ pc \in {"loop", "err"}
    /\ Len(log) <= MaxIter
    /\ Len(pokes) <= Len(log)

---------------------------------------------------------------------------
(* Vocabulary of the properties: the request shapes of the protocol, read  *)
(* off the noun itself, and the history of iterations.                     *)

IsPair(n) == n[1] = "c"
IsAtomNoun(n) == n[1] = "a"

ShapeRead(e) ==
    /\ IsPair(e) /\ e[2] = Atom(b_file)
    /\ IsPair(e[3]) /\ e[3][2] = Atom(b_read)
    /\ IsAtomNoun(e[3][3])

ShapeWrite(e) ==
    /\ IsPair(e) /\ e[2] = Atom(b_file)
    /\ IsPair(e[3]) /\ e[3][2] = Atom(b_write)
    /\ IsPair(e[3][3])
    /\ IsAtomNoun(e[3][3][2]) /\ IsAtomNoun(e[3][3][3])

Accepted(e) == ShapeRead(e) \/ ShapeWrite(e)

ReqPath(e) == IF ShapeRead(e) THEN e[3][3] ELSE e[3][3][2]
ReqContents(e) == e[3][3][3]
PathBytes(e) == ReqPath(e)[2]
ValidPath(e) == \A k \in 1..Len(PathBytes(e)) : PathBytes(e)[k] # 255

Iters == 1..Len(log)
Fetched(i) == log[i].eff # None
Eff(i) == log[i].eff[1]
Request(i) == Fetched(i) /\ Accepted(Eff(i))
Emitted(i) == log[i].poke # None
PokeOf(i) == log[i].poke[1]
PokeFlag(i) == PokeOf(i).noun[3][3][3][3]
LoopGoesOn(i) == i = Len(log) => pc = "loop"

RECURSIVE SentPokes(_)
SentPokes(l) ==
    IF l = <<>> THEN <<>>
    ELSE (IF Head(l).sent THEN <<Head(l).poke[1]>> ELSE <<>>) \o SentPokes(Tail(l))

(* The filesystem iteration i leaves behind. *)
Post(i) == IF i = Len(log) THEN fs ELSE log[i + 1].pre

(* The pokes delivered are those the iterations emitted, in their order. *)
HistoryIsFaithful ==
    /\ pokes = SentPokes(log)
    /\ \A i \in Iters : log[i].sent => Emitted(i)

NoPokeWithoutRequest == \A i \in Iters : Emitted(i) => Request(i)

ReadWire == [source |-> "file", version |-> 1, tags |-> <<"read">>]
WriteWire == [source |-> "file", version |-> 1, tags |-> <<"write">>]

ReadErrTuple == <<"c", Atom(b_file), <<"c", Atom(b_read), Atom(<<>>)>>>>
ReadOkTuple(c) == <<"c", Atom(b_file), <<"c", Atom(b_read), <<"c", Atom(<<>>), c>>>>>>
WriteTuple(p, c, flag) ==
    <<"c", Atom(b_file), <<"c", Atom(b_write), <<"c", p, <<"c", c, flag>>>>>>>>

True == Atom(<<>>)
False == Atom(<<1>>)

---------------------------------------------------------------------------
(* C1 (as stated): every accepted request, i.e. every effect shaped        *)
(* ("file","read",path) or ("file","write",(path,contents)), results in    *)
(* exactly one emitted poke, and no poke is emitted that does not answer   *)
(* an accepted request.                                                    *)
C1_EveryShapedRequestAnswered ==
    /\ HistoryIsFaithful
    /\ NoPokeWithoutRequest
    /\ \A i \in Iters : Request(i) => Emitted(i)

(* C1 (amended): every accepted request whose path atom is valid UTF-8     *)
(* results in exactly one emitted poke (one call of handle.poke, which     *)
(* delivers the poke unless the call fails); an accepted request whose     *)
(* path atom is not valid UTF-8 results in no poke and ends the loop; no   *)
(* poke is emitted that does not answer an accepted request.               *)
C1_OnePokePerValidRequest ==
    /\ HistoryIsFaithful
    /\ NoPokeWithoutRequest
    /\ \A i \in Iters : Request(i) =>
          /\ Emitted(i) <=> ValidPath(Eff(i))
          /\ ~ValidPath(Eff(i)) => (i = Len(log) /\ pc = "err")

C1_Witness ==
    /\ Len(log) = 3 /\ Len(pokes) = 2
    /\ ~Request(1) /\ Fetched(1)
    /\ Request(2) /\ ShapeRead(Eff(2)) /\ log[2].sent
    /\ Request(3) /\ ShapeWrite(Eff(3)) /\ log[3].sent

(* C2: a poke emitted for a read request carries the operation tag "read"  *)
(* and the wire {file, 1, [read]}; a poke emitted for a write request      *)
(* carries the tag "write" and the wire {file, 1, [write]}.                *)
C2_TagAndWireMatchRequest ==
    /\ \A i \in Iters : Emitted(i) =>
          /\ PokeOf(i).noun[2] = Atom(b_file)
          /\ ShapeRead(Eff(i)) =>
                PokeOf(i).noun[3][2] = Atom(b_read) /\ PokeOf(i).wire = ReadWire
          /\ ShapeWrite(Eff(i)) =>
                PokeOf(i).noun[3][2] = Atom(b_write) /\ PokeOf(i).wire = WriteWire
    /\ \A k \in 1..Len(pokes) :
          \/ pokes[k].noun[3][2] = Atom(b_read) /\ pokes[k].wire = ReadWire
          \/ pokes[k].noun[3][2] = Atom(b_write) /\ pokes[k].wire = WriteWire

C2_Witness ==
    \E i, j, k \in Iters :
       /\ log[i].ops = <<<<"read", FALSE>>>> /\ log[i].sent
       /\ log[j].ops = <<<<"create_dir_all", FALSE>>>> /\ log[j].sent
       /\ log[k].ops = <<<<"create_dir_all", TRUE>>, <<"write", TRUE>>>> /\ log[k].sent

(* A read of the path of write i, with no write in between. *)
ReadsBack(i, j) ==
    /\ i < j
    /\ log[i].kind = "write" /\ log[j].kind = "read"
    /\ ReqPath(Eff(j)) = ReqPath(Eff(i))
    /\ \A k \in (i + 1)..(j - 1) : log[k].kind # "write"

(* C3 (as stated): after any processed write request, a following read of  *)
(* the same path is answered with a read-success poke carrying exactly the *)
(* contents of the write request.                                          *)
C3_ReadAfterAnyWrite ==
    \A i, j \in Iters : ReadsBack(i, j) =>
        PokeOf(j).noun = ReadOkTuple(ReqContents(Eff(i)))

(* C3 (amended): after a write request answered with success = true, a     *)
(* following read of the same path, with no other write in between, is     *)
(* answered with a read-success poke carrying exactly the contents of the  *)
(* write request.                                                          *)
C3_ReadAfterSuccessfulWrite ==
    \A i, j \in Iters : (ReadsBack(i, j) /\ PokeFlag(i) = True) =>
        PokeOf(j).noun = ReadOkTuple(ReqContents(Eff(i)))

C3_Witness ==
    /\ Len(log) = 3
    /\ ReadsBack(1, 3) /\ PokeFlag(1) = True /\ log[3].sent
    /\ Eff(1) = WriteEffect(pF, <<2, 3>>)
    /\ nF \in DOMAIN log[1].pre.files

(* C4: an effect that is not shaped as a read or write request produces no *)
(* poke and leaves the loop running; a valid request fetched after it is   *)
(* answered.                                                               *)
C4_MalformedIsDropped ==
    /\ HistoryIsFaithful
    /\ \A i \in Iters : (Fetched(i) /\ ~Accepted(Eff(i))) =>
          /\ ~Emitted(i) /\ ~log[i].sent
          /\ LoopGoesOn(i)
          /\ (i < Len(log) /\ Request(i + 1) /\ ValidPath(Eff(i + 1)))
                => Emitted(i + 1)

C4_Witness ==
    /\ Len(log) = 2 /\ pokes # <<>>
    /\ Fetched(1) /\ ~Accepted(Eff(1)) /\ IsPair(Eff(1))
    /\ Request(2) /\ log[2].sent /\ pokes[1] = PokeOf(2)

(* The filesystem read of read request i fails. *)
ReadFails(i) ==
    /\ Fetched(i) /\ ShapeRead(Eff(i)) /\ ValidPath(Eff(i))
    /\ \/ log[i].ops = <<<<"read", FALSE>>>>
       \/ Node(PathBytes(Eff(i))) \notin DOMAIN log[i].pre.files

(* C5: a read request whose filesystem read fails is answered with exactly *)
(* the 3-element tuple ("file","read",0), and the read failure does not    *)
(* end the loop (only a failing emission of the poke does).                *)
C5_ReadErrorIsThreeTuple ==
    \A i \in Iters : ReadFails(i) =>
       /\ Emitted(i)
       /\ PokeOf(i).noun = ReadErrTuple
       /\ log[i].sent => LoopGoesOn(i)
       /\ (i = Len(log) /\ pc = "err") => ~log[i].sent

C5_Witness ==
    /\ Len(log) = 2
    /\ ReadFails(1) /\ log[1].sent /\ pokes[1].noun = ReadErrTuple
    /\ Request(2) /\ log[2].sent

(* Read request i names an existing regular file. *)
ReadsFile(i) ==
    /\ Fetched(i) /\ ShapeRead(Eff(i)) /\ ValidPath(Eff(i))
    /\ ~TrailingSlash(PathBytes(Eff(i))) /\ ~HasNul(PathBytes(Eff(i)))
    /\ Node(PathBytes(Eff(i))) \in DOMAIN log[i].pre.files

FileRead(i) == log[i].pre.files[Node(PathBytes(Eff(i)))]

(* b is f without f's trailing zero bytes. *)
SameUpToTrailingZeros(b, f) ==
    /\ Len(b) <= Len(f)
    /\ SubSeq(f, 1, Len(b)) = b
    /\ \A k \in (Len(b) + 1)..Len(f) : f[k] = 0
    /\ b = <<>> \/ b[Len(b)] # 0

(* The noun is a tuple of at least four elements. *)
HasFourthElement(n) == IsPair(n) /\ IsPair(n[3]) /\ IsPair(n[3][3])

AllOpsOk(i) ==
    /\ log[i].ops # <<>>
    /\ \A k \in 1..Len(log[i].ops) : log[i].ops[k][2]
    /\ log[i].ops[Len(log[i].ops)][1] = "write"

C7_WriteEchoAndFlag ==
    /\ \A i \in Iters : (Fetched(i) /\ ShapeWrite(Eff(i)) /\ ValidPath(Eff(i)))
          => log[i].kind = "write"
    /\ \A i \in Iters : log[i].kind = "write" =>
          /\ ShapeWrite(Eff(i)) /\ Emitted(i)
          /\ \E flag \in {True, False} :
                PokeOf(i).noun = WriteTuple(ReqPath(Eff(i)), ReqContents(Eff(i)), flag)
          /\ PokeFlag(i) = True <=> AllOpsOk(i)
          /\ PokeFlag(i) = True =>
                /\ Node(PathBytes(Eff(i))) \in DOMAIN Post(i).files
                /\ Post(i).files[Node(PathBytes(Eff(i)))] = ReqContents(Eff(i))[2]
          /\ PokeFlag(i) = False => Post(i).files = log[i].pre.files

C7_Witness ==
    /\ Len(log) = 3
    /\ log[1].ops = <<<<"create_dir_all", TRUE>>, <<"write", TRUE>>>>
    /\ PokeFlag(1) = True /\ log[1].sent
    /\ log[2].ops = <<<<"create_dir_all", FALSE>>>>
    /\ PokeFlag(2) = False /\ log[2].sent
    /\ log[3].ops = <<<<"write", FALSE>>>>
    /\ PokeFlag(3) = False /\ log[3].sent

(* Write request i names a path whose parent directory does not exist and  *)
(* can be created.                                                         *)
ParentOf(i) == parent(PathBytes(Eff(i)))[1]
NeedsDirs(i) ==
    /\ Fetched(i) /\ ShapeWrite(Eff(i)) /\ ValidPath(Eff(i))
    /\ parent(PathBytes(Eff(i))) # None
    /\ ~IsDir(log[i].pre, ParentOf(i))
    /\ create_dir_all(log[i].pre, ParentOf(i)).ok

AncestorsExist(i) ==
    \A k \in 0..Len(ParentOf(i)[2]) : Prefix(ParentOf(i), k) \in Post(i).dirs

FileWritten(i) ==
    /\ Node(PathBytes(Eff(i))) \in DOMAIN Post(i).files
    /\ Post(i).files[Node(PathBytes(Eff(i)))] = ReqContents(Eff(i))[2]

(* C8 (as stated): after a write request whose target directory does not   *)
(* exist and can be created, the ancestor directories exist, the file      *)
(* exists with the request's contents and the poke has success = true.     *)
C8_DirsCreatedAndWritten ==
    \A i \in Iters : NeedsDirs(i) =>
       /\ Emitted(i)
       /\ AncestorsExist(i)
       /\ FileWritten(i)
       /\ PokeFlag(i) = True

(* C8 (amended): after a write request whose target directory does not     *)
(* exist and can be created, the ancestor directories exist; if the file   *)
(* write itself succeeds, the file exists with the request's contents and  *)
(* the poke has success = true; if it fails (as for a path ending in "/")  *)
(* the poke has success = false.                                           *)
C8_DirsCreatedThenWriteDecides ==
    \A i \in Iters : NeedsDirs(i) =>
       /\ Emitted(i)
       /\ AncestorsExist(i)
       /\ IF fs_write(create_dir_all(log[i].pre, ParentOf(i)).fs,
                      PathBytes(Eff(i)), ReqContents(Eff(i))[2]).ok
          THEN FileWritten(i) /\ PokeFlag(i) = True
          ELSE PokeFlag(i) = False

C8_Witness ==
    \E i \in Iters :
       /\ NeedsDirs(i) /\ Eff(i) = WriteEffect(pDF, <<1>>)
       /\ nD \notin log[i].pre.dirs /\ nD \in fs.dirs
       /\ nDF \in DOMAIN fs.files /\ fs.files[nDF] = <<1>>
       /\ PokeFlag(i) = True /\ log[i].sent

(* C9: a failure of next_effect emits no poke, performs no filesystem      *)
(* operation and does not end the loop; a valid request delivered by a     *)
(* later fetch is answered.                                                *)
C9_FetchFailureContinues ==
    /\ HistoryIsFaithful
    /\ \A i \in Iters : ~Fetched(i) =>
          /\ log[i].kind = "fetch_err"
          /\ ~Emitted(i) /\ ~log[i].sent
          /\ log[i].ops = <<>> /\ Post(i) = log[i].pre
          /\ LoopGoesOn(i)
          /\ (i < Len(log) /\ Request(i + 1) /\ ValidPath(Eff(i + 1)))
                => Emitted(i + 1)

C9_Witness ==
    /\ Len(log) = 2 /\ Len(pokes) = 1
    /\ ~Fetched(1)
    /\ Request(2) /\ log[2].sent /\ pokes[1] = PokeOf(2)

(* C10: once the effect source is closed, the loop eventually stops        *)
(* running.                                                                *)
C10_StopsOnceClosed == closed ~> (pc # "loop")

(* C11: a read or write request of valid shape whose path atom is not     *)
(* valid UTF-8 ends the loop with an error: no poke is emitted for it, no  *)
(* filesystem operation is performed for it, and no later effect is        *)
(* processed.                                                              *)
C11_BadPathIsFatal ==
    /\ \A i \in Iters : (Request(i) /\ ~ValidPath(Eff(i))) =>
          /\ log[i].kind = "fatal"
          /\ ~Emitted(i) /\ ~log[i].sent
          /\ log[i].ops = <<>> /\ Post(i) = log[i].pre
          /\ i = Len(log) /\ pc = "err"
    /\ \A i \in Iters : log[i].kind = "fatal" => (i = Len(log) /\ pc = "err")

C11_Witness ==
    /\ Len(log) = 2 /\ Len(pokes) = 1 /\ pc = "err"
    /\ Request(1) /\ log[1].sent
    /\ Request(2) /\ ShapeWrite(Eff(2)) /\ ~ValidPath(Eff(2))
    /\ log[2].kind = "fatal" /\ fs = log[2].pre

(* C12: when handle.poke fails, in whichever branch, the loop ends with    *)
(* the error: no further effect is fetched or processed.                   *)
C12_PokeFailureIsFatal ==
    /\ HistoryIsFaithful
    /\ \A i \in Iters : (Emitted(i) /\ ~log[i].sent) => (i = Len(log) /\ pc = "err")
    /\ pc = "err" =>
          /\ log # <<>>
          /\ \/ log[Len(log)].kind = "fatal"
             \/ Emitted(Len(log)) /\ ~log[Len(log)].sent

C12_Witness ==
    /\ Len(log) = 2 /\ Len(pokes) = 1 /\ pc = "err"
    /\ log[1].kind = "read" /\ log[1].sent
    /\ log[2].kind = "write" /\ log[2].ops = <<<<"create_dir_all", FALSE>>>>
    /\ Emitted(2) /\ ~log[2].sent

(* The filesystem operations one iteration may perform, in their order. *)
OpSequences ==
    {<<>>, <<<<"create_dir_all", FALSE>>>>}
    \cup {<<<<"read", b>>>> : b \in BOOLEAN}
    \cup {<<<<"write", b>>>> : b \in BOOLEAN}
    \cup {<<<<"create_dir_all", TRUE>>, <<"write", b>>>> : b \in BOOLEAN}

MkdirFails(i) ==
    /\ Fetched(i) /\ ShapeWrite(Eff(i)) /\ ValidPath(Eff(i))
    /\ parent(PathBytes(Eff(i))) # None
    /\ ~create_dir_all(log[i].pre, ParentOf(i)).ok

(* C14: when creating the parent directories fails, the file write is not  *)
(* attempted: the files are left as they were, one poke with success =     *)
(* false is emitted, and the loop moves on to the next effect.             *)
C14_NoWriteAfterMkdirFailure ==
    \A i \in Iters : MkdirFails(i) =>
       /\ log[i].ops = <<<<"create_dir_all", FALSE>>>>
       /\ Post(i).files = log[i].pre.files
       /\ Emitted(i)
       /\ PokeOf(i).noun = WriteTuple(ReqPath(Eff(i)), ReqContents(Eff(i)), False)
       /\ log[i].sent => LoopGoesOn(i)

C14_Witness ==
    /\ Len(log) = 2 /\ Len(pokes) = 2
    /\ MkdirFails(1) /\ log[1].sent /\ PokeFlag(1) = False
    /\ Node(PathBytes(Eff(1))) \notin DOMAIN fs.files
    /\ Request(2) /\ log[2].sent

(* C15: an effect that is filtered out or not recognized never reaches the *)
(* filesystem: no read, directory creation or write is performed, and the  *)
(* filesystem after the iteration is the one before it.                    *)
C15_DroppedEffectLeavesFilesystem ==
    \A i \in Iters : (Fetched(i) /\ ~Accepted(Eff(i))) =>
       /\ log[i].kind = "skip"
       /\ log[i].ops = <<>>
       /\ Post(i) = log[i].pre

C15_Witness ==
    /\ Len(log) = 2
    /\ Fetched(2) /\ ~Accepted(Eff(2))
    /\ IsPair(Eff(2)) /\ IsPair(Eff(2)[3]) /\ Eff(2)[3][2] = Atom(b_write)
    /\ log[1].kind = "write" /\ PokeFlag(1) = True
    /\ fs = log[2].pre /\ fs # log[1].pre

(* Iterations i < j both fetch a read request for the same path, and no    *)
(* write request is processed in between.                                  *)
ReadsAgain(i, j) ==
    /\ i < j
    /\ Fetched(i) /\ ShapeRead(Eff(i)) /\ Fetched(j) /\ ShapeRead(Eff(j))
    /\ ReqPath(Eff(j)) = ReqPath(Eff(i))
    /\ \A k \in (i + 1)..(j - 1) : log[k].kind # "write"

(* C16: processing a read request leaves the filesystem as it was, and two *)
(* read requests for the same path with no write in between are answered   *)
(* with identical pokes.                                                   *)
C16_ReadLeavesFilesystem ==
    /\ \A i \in Iters : (Fetched(i) /\ ShapeRead(Eff(i))) => Post(i) = log[i].pre
    /\ \A i, j \in Iters : ReadsAgain(i, j) =>
          (Emitted(i) /\ Emitted(j) /\ PokeOf(i) = PokeOf(j))

C16_Witness ==
    /\ Len(log) = 3 /\ Len(pokes) = 3
    /\ ReadsAgain(1, 3) /\ log[2].kind = "read" /\ Eff(2) # Eff(1)
    /\ PokeOf(1) = PokeOf(3)
    /\ PokeOf(1).noun = ReadOkTuple(Atom(<<1>>))
    /\ PokeOf(2).noun = ReadOkTuple(Atom(<<3>>))

(* Write request i succeeded: every operation it ran succeeded, the last   *)
(* one being the file write.                                               *)
WriteSucceeded(i) ==
    /\ Fetched(i) /\ ShapeWrite(Eff(i)) /\ ValidPath(Eff(i))
    /\ AllOpsOk(i)

(* C17: a successful write replaces the file's contents wholesale: after   *)
(* two successful write requests to the same path the file holds exactly   *)
(* the contents of the later request, and a following read of that path,   *)
(* with no write in between, returns the later contents.                   *)
C17_LaterWriteReplaces ==
    \A i, j \in Iters :
       (i < j /\ WriteSucceeded(i) /\ WriteSucceeded(j)
              /\ ReqPath(Eff(i)) = ReqPath(Eff(j))) =>
          /\ FileWritten(j)
          /\ \A k \in Iters : ReadsBack(j, k) =>
                PokeOf(k).noun = ReadOkTuple(ReqContents(Eff(j)))

C17_Witness ==
    /\ Len(log) = 3 /\ Len(pokes) = 3
    /\ WriteSucceeded(1) /\ WriteSucceeded(2) /\ ReadsBack(2, 3)
    /\ ReqPath(Eff(1)) = ReqPath(Eff(2))
    /\ ReqContents(Eff(1)) # ReqContents(Eff(2))
    /\ Len(ReqContents(Eff(2))[2]) < Len(ReqContents(Eff(1))[2])
    /\ PokeOf(3).noun = ReadOkTuple(ReqContents(Eff(2)))

WriteOfPair(e) ==
    /\ IsPair(e) /\ e[2] = Atom(b_file)
    /\ IsPair(e[3]) /\ e[3][2] = Atom(b_write)
    /\ IsPair(e[3][3])
    /\ IsAtomNoun(e[3][3][2]) /\ IsPair(e[3][3][3])

WriteTagged(e) == IsPair(e) /\ IsPair(e[3]) /\ e[3][2] = Atom(b_write)

(* C19: the shape checks of the write branch run before the path is        *)
(* decoded: a write effect whose contents are a pair is dropped without a  *)
(* poke or a filesystem operation and the loop continues, even when its    *)
(* path is not valid UTF-8; the fatal UTF-8 error of the write branch      *)
(* occurs only for an effect whose path and contents are both atoms.       *)
C19_ShapeChecksBeforePathDecode ==
    /\ \A i \in Iters : (Fetched(i) /\ WriteOfPair(Eff(i))) =>
          /\ log[i].kind = "skip"
          /\ ~Emitted(i) /\ log[i].ops = <<>> /\ Post(i) = log[i].pre
          /\ LoopGoesOn(i)
    /\ \A i \in Iters : (Fetched(i) /\ log[i].kind = "fatal" /\ WriteTagged(Eff(i)))
          => ShapeWrite(Eff(i))

C19_Witness ==
    /\ Len(log) = 3 /\ Len(pokes) = 1 /\ pc = "err"
    /\ Fetched(1) /\ WriteOfPair(Eff(1)) /\ 255 \in {Eff(1)[3][3][2][2][k] : k \in 1..Len(Eff(1)[3][3][2][2])}
    /\ log[1].kind = "skip"
    /\ Request(2) /\ log[2].sent
    /\ log[3].kind = "fatal" /\ ShapeWrite(Eff(3))

(* The file write of iteration i was performed and succeeded. *)
FileWriteDone(i) ==
    /\ Fetched(i) /\ ShapeWrite(Eff(i)) /\ ValidPath(Eff(i))
    /\ log[i].ops # <<>> /\ log[i].ops[Len(log[i].ops)] = <<"write", TRUE>>

(* C20: the file write of a write request is performed before its poke is  *)
(* emitted and is not undone: when the emission of the success poke fails, *)
(* the loop ends with the file holding the request's contents and with no  *)
(* poke delivered for the request.                                         *)
C20_WriteStaysWhenPokeFails ==
    \A i \in Iters : FileWriteDone(i) =>
       /\ FileWritten(i)
       /\ Emitted(i) /\ PokeOf(i).noun = WriteTuple(ReqPath(Eff(i)), ReqContents(Eff(i)), True)
       /\ ~log[i].sent =>
             /\ i = Len(log) /\ pc = "err"
             /\ pokes = SentPokes(SubSeq(log, 1, i - 1))

C20_Witness ==
    /\ Len(log) = 2 /\ Len(pokes) = 1 /\ pc = "err"
    /\ FileWriteDone(2) /\ ~log[2].sent
    /\ Node(PathBytes(Eff(2))) \notin DOMAIN log[2].pre.files
    /\ Node(PathBytes(Eff(2))) \in DOMAIN fs.files
    /\ fs.files[Node(PathBytes(Eff(2)))] = ReqContents(Eff(2))[2]

=============================================================================
